---------------------------- MODULE Spec2Model ----------------------------
(***************************************************************************)
(* State-machine model of resilientEventListener                           *)
(* (src/src/resilientEventListener.ts).                                    *)
(*                                                                         *)
(* One listener instance.  The closure variables ws, pingTimeout,          *)
(* keepAliveInterval, stopped and reconnectDelay are shared by every       *)
(* connection; subscriptionId is a variable of one connect() call and is   *)
(* therefore kept per transport.  Every handler runs to completion (single *)
(* event loop), so every handler is one action.  The WebSocket library and *)
(* the JavaScript timer queue are the environment: a transport is          *)
(* CONNECTING, OPEN, CLOSING or CLOSED, delivers open once while           *)
(* CONNECTING, frames while OPEN or CLOSING, and close once; a timer fires *)
(* when its remaining time is 0 and time does not pass a due timer.        *)
(* Times are in milliseconds.                                              *)
(***************************************************************************)
EXTENDS Integers, FiniteSets, Sequences, TLC

\* ------------------------------------------------------------------ bounds
MaxTransports == 7      \* WebSocket objects one run may construct
MaxFramed == 2          \* frames are delivered on the first MaxFramed transports
MaxStops == 2           \* caller invocations of stop() in one run
CallCap == 2            \* history counters of calls saturate here

\* ------------------------------------------------------- program constants
DEFAULT_EXPECTED_PONG_BACK == 15000
DEFAULT_KEEP_ALIVE_CHECK_INTERVAL == 60000
BaseDelay == 1000
MaxDelay == 30000

\* The configurations a run is started with: keepAliveCheckInterval and
\* expectedPongBack as passed in args (0 stands for 0 and for an absent field,
\* which the code does not tell apart), and whether args.callback is given.
\* The first is that of index.ts; the second has the pong deadline later than
\* the next keep-alive tick, the third earlier.
Configs ==
    { [ keepAliveCheckInterval |-> 0, expectedPongBack |-> 0, callback |-> TRUE ],
      [ keepAliveCheckInterval |-> 1000, expectedPongBack |-> 2000, callback |-> TRUE ],
      [ keepAliveCheckInterval |-> 2000, expectedPongBack |-> 1000, callback |-> FALSE ] }

Transports == 1 .. MaxTransports

VARIABLES
    args,               \* the listener's configuration (never changes)
    ws,                 \* the transport handle: 0 is null, else a transport
    stopped,            \* the stopped flag
    reconnectDelay,     \* the delay of the next reconnect
    keepAliveInterval,  \* "null" or "handle"
    pingTimeout,        \* "null" or "handle"
    timers,             \* the pending timers of the JavaScript timer queue
    created,            \* number of WebSocket objects constructed so far
    readyState,         \* readyState of each transport ("NONE": not created)
    subscriptionId,     \* subscriptionId of each transport's connect() call
    sent,               \* requests sent on each transport
    closeCalls,         \* close() calls made on each transport
    terminateCalls,     \* terminate() calls made on each transport
    supersededId,       \* subscriptionId of the connection before this one
    firstConfirmation,  \* per transport: result of its first response with id 1
    stopCalls,          \* caller invocations of stop() so far
    closesSinceOpen,    \* reconnects scheduled since creation or last open
    lastReconnectDelay, \* delay given to the last setTimeout(connect, ..)
    deadlineElapsed,    \* per transport: a pong deadline of one of its pings fired
    lastEvent           \* the handler that ran last and what it did (see Event)

vars == << args, ws, stopped, reconnectDelay, keepAliveInterval, pingTimeout,
           timers, created, readyState, subscriptionId, sent, closeCalls,
           terminateCalls, supersededId, firstConfirmation, stopCalls, closesSinceOpen,
           lastReconnectDelay, deadlineElapsed, lastEvent >>

\* --------------------------------------------------------------- helpers
Min(a, b) == IF a < b THEN a ELSE b

Bump(n) == Min(n + 1, CallCap)

\* A JSON field that is missing, and a variable never assigned, read as
\* undefined.
Absent == "absent"

\* What the last handler did.  type: the handler, for onmessage the path it
\* took; tr: the transport it ran for (0: none); sub: the subscription a
\* notification carried; decoded: parseLog was called; callbacks: number of
\* calls of args.callback; arg: the argument of that call; thrown: the handler
\* ended with an uncaught exception.
Event(type, tr) ==
    [ type |-> type, tr |-> tr, sub |-> Absent, decoded |-> FALSE, callbacks |-> 0,
      arg |-> "none", thrown |-> FALSE ]

\* A timer of the queue.  kind: "reconnect" (setTimeout(connect, ..)),
\* "interval" (the keep-alive setInterval) or "pong" (the ping deadline).
\* rem: time left; tr: the transport it was armed for; cur: the variable
\* keepAliveInterval / pingTimeout holds the handle of this timer;
\* answered: (pong only) a confirmation arrived after this ping was sent.
Timer(kind, rem, tr, cur) ==
    [ kind |-> kind, rem |-> rem, tr |-> tr, cur |-> cur, answered |-> FALSE ]

\* clearInterval(keepAliveInterval) / clearTimeout(pingTimeout): the timer
\* whose handle the variable holds, if it is still pending, is removed.
ClearHandle(ts, kind) == { tm \in ts : ~(tm.kind = kind /\ tm.cur) }

\* Assigning a new handle to the variable: earlier timers of that kind are
\* no longer referenced (and are not cleared by the assignment).
Unreference(ts, kind) ==
    { IF tm.kind = kind THEN [tm EXCEPT !.cur = FALSE] ELSE tm : tm \in ts }

\* args.keepAliveCheckInterval || DEFAULT_KEEP_ALIVE_CHECK_INTERVAL
KeepAliveCheckInterval(a) ==
    IF a.keepAliveCheckInterval # 0 THEN a.keepAliveCheckInterval
    ELSE DEFAULT_KEEP_ALIVE_CHECK_INTERVAL

\* args.expectedPongBack || DEFAULT_EXPECTED_PONG_BACK
ExpectedPongBack(a) ==
    IF a.expectedPongBack # 0 THEN a.expectedPongBack
    ELSE DEFAULT_EXPECTED_PONG_BACK

\* A backoff that doubles without the cap.
NextDelayUncapped(d) == d * 2

\* A backoff capped at twice the maximum.
NextDelayLateCap(d) == Min(d * 2, MaxDelay * 2)

\* Math.min(reconnectDelay * 2, 30000)
NextDelay(d) == Min(d * 2, MaxDelay)

\* ws.close() / ws.terminate() on a transport: it starts closing.
Closing(rs, t) ==
    IF rs[t] \in {"CONNECTING", "OPEN"} THEN [rs EXCEPT ![t] = "CLOSING"] ELSE rs

\* The call records start empty.  They are records of the transports of the
\* current connection attempt: a transport that has delivered its close event
\* runs no handler and receives no call any more, so connect() starts the
\* records afresh when it constructs the next transport.  In the same way
\* the subscriptionId of a connect() call whose transport has closed can no
\* longer be read; supersededId keeps the one of the latest such call.
NoneSent == [t \in Transports |-> [subscribe |-> 0, ping |-> 0]]

NoCalls == [t \in Transports |-> 0]

NoneSubscribed == [t \in Transports |-> Absent]

NoneConfirmed == [t \in Transports |-> "none"]

NoneElapsed == [t \in Transports |-> FALSE]

\* ------------------------------------------------------------------ Init
\* The state after resilientEventListener(args) returns: connect() has run
\* once, so the first WebSocket exists and is connecting.
Init ==
    /\ args \in Configs
    /\ ws = 1
    /\ stopped = FALSE
    /\ reconnectDelay = BaseDelay
    /\ keepAliveInterval = "null"
    /\ pingTimeout = "null"
    /\ timers = {}
    /\ created = 1
    /\ readyState = [t \in Transports |-> IF t = 1 THEN "CONNECTING" ELSE "NONE"]
    /\ subscriptionId = NoneSubscribed
    /\ sent = NoneSent
    /\ closeCalls = NoCalls
    /\ terminateCalls = NoCalls
    /\ supersededId = Absent
    /\ firstConfirmation = NoneConfirmed
    /\ stopCalls = 0
    /\ closesSinceOpen = 0
    /\ lastReconnectDelay = 0
    /\ deadlineElapsed = NoneElapsed
    /\ lastEvent = Event("connect", 1)


\* ------------------------------------------------------------- connect()
\* A connect() that does not look at the stopped flag.
ConnectAlways == TRUE

\* connect() proceeds past its first statement only while not stopped.
ConnectProceeds == ~stopped

\* A reconnect timer fires and runs connect(): unless stopped, a new
\* WebSocket is constructed and becomes the transport handle.
ReconnectTimerFires(tm) ==
    /\ tm \in timers /\ tm.kind = "reconnect" /\ tm.rem = 0
    /\ (~ConnectProceeds) \/ created < MaxTransports
    /\ timers' = timers \ {tm}
    /\ IF ConnectProceeds
       THEN /\ created' = created + 1
            /\ ws' = created + 1
            /\ readyState' = [readyState EXCEPT ![created + 1] = "CONNECTING"]
            /\ sent' = NoneSent
            /\ closeCalls' = NoCalls
            /\ terminateCalls' = NoCalls
            /\ deadlineElapsed' = NoneElapsed
            /\ subscriptionId' = NoneSubscribed
            /\ supersededId' = subscriptionId[created]
            /\ firstConfirmation' = NoneConfirmed
       ELSE UNCHANGED << created, ws, readyState, sent, closeCalls, terminateCalls,
                         deadlineElapsed, subscriptionId, supersededId,
                         firstConfirmation >>
    /\ lastEvent' = Event("connect", IF ConnectProceeds THEN created + 1 ELSE 0)
    /\ UNCHANGED << args, stopped, reconnectDelay, keepAliveInterval,
                    pingTimeout, stopCalls, closesSinceOpen, lastReconnectDelay >>

\* ------------------------------------------------------------ ws.onerror
\* An onerror that terminates its transport.
ErrorTerminates(rs, t) == Closing(rs, t)

\* The readyState of the transports after onerror for t: the handler logs
\* and makes no call on the transport.
ErrorLeaves(rs, t) == rs

OnError(t) ==
    /\ readyState[t] \in {"CONNECTING", "OPEN", "CLOSING"}
    /\ readyState' = ErrorLeaves(readyState, t)
    /\ lastEvent' = Event("error", t)
    /\ UNCHANGED << args, ws, stopped, reconnectDelay, keepAliveInterval,
                    pingTimeout, timers, created, subscriptionId,
                    supersededId, firstConfirmation, sent, closeCalls, terminateCalls, stopCalls,
                    closesSinceOpen, lastReconnectDelay, deadlineElapsed >>

\* ------------------------------------------------------------ ws.onclose
\* An onclose that schedules no reconnect.
CloseSchedulesNothing(t) == {}

\* An onclose that schedules two reconnects.
CloseSchedulesTwice(t) ==
    { Timer("reconnect", reconnectDelay, t, FALSE),
      Timer("reconnect", reconnectDelay * 2, t, FALSE) }

\* An onclose that schedules the reconnect without looking at stopped.
CloseSchedulesAlways(t) == { Timer("reconnect", reconnectDelay, t, FALSE) }

\* The timers onclose arms for transport t: setTimeout(connect,
\* reconnectDelay) unless stopped.
CloseSchedules(t) ==
    IF ~stopped THEN { Timer("reconnect", reconnectDelay, t, FALSE) } ELSE {}

\* The timer queue after onclose has cleared the two handles.
CloseClears ==
    LET a == IF keepAliveInterval = "handle" THEN ClearHandle(timers, "interval") ELSE timers
    IN  IF pingTimeout = "handle" THEN ClearHandle(a, "pong") ELSE a

OnClose(t) ==
    /\ readyState[t] \in {"CONNECTING", "OPEN", "CLOSING"}
    /\ stopped \/ created < MaxTransports
    /\ readyState' = [readyState EXCEPT ![t] = "CLOSED"]
    /\ timers' = CloseClears \cup CloseSchedules(t)
    /\ ws' = 0
    /\ IF ~stopped
       THEN /\ reconnectDelay' = NextDelay(reconnectDelay)
            /\ closesSinceOpen' = closesSinceOpen + 1
            /\ lastReconnectDelay' = reconnectDelay
       ELSE UNCHANGED << reconnectDelay, closesSinceOpen, lastReconnectDelay >>
    /\ lastEvent' = Event("close", t)
    /\ UNCHANGED << args, stopped, keepAliveInterval, pingTimeout, created,
                    subscriptionId, supersededId, firstConfirmation, sent, closeCalls,
                    terminateCalls, stopCalls, deadlineElapsed >>

\* ------------------------------------------------------------- ws.onopen
\* An onopen that leaves the delay as it is.
OpenKeepsDelay(d) == d

\* reconnectDelay = 1000
OpenDelay(d) == BaseDelay

\* An onopen that sends nothing.
OpenSendsNothing(n) == n

\* ws!.send(JSON.stringify(request)): one more subscribe request sent.
OpenSends(n) == Bump(n)

\* The timer queue after onopen has armed the keep-alive interval for t.
OpenArms(t) ==
    Unreference(timers, "interval")
        \cup { Timer("interval", KeepAliveCheckInterval(args), t, TRUE) }

\* ws!.send(..) throws a TypeError when ws is null: the handler ends there.
OnOpen(t) ==
    /\ readyState[t] = "CONNECTING"
    /\ readyState' = [readyState EXCEPT ![t] = "OPEN"]
    /\ reconnectDelay' = OpenDelay(reconnectDelay)
    /\ closesSinceOpen' = 0
    /\ IF ws = 0
       THEN /\ lastEvent' = [Event("open", t) EXCEPT !.thrown = TRUE]
            /\ UNCHANGED << sent, timers, keepAliveInterval >>
       ELSE /\ sent' = [sent EXCEPT ![ws].subscribe = OpenSends(@)]
            /\ timers' = OpenArms(t)
            /\ keepAliveInterval' = "handle"
            /\ lastEvent' = Event("open", t)
    /\ UNCHANGED << args, ws, stopped, pingTimeout, created, subscriptionId,
                    supersededId, firstConfirmation, closeCalls, terminateCalls,
                    stopCalls, lastReconnectDelay, deadlineElapsed >>

\* ------------------------------------------------- the keep-alive interval
\* ws && ws.readyState === WebSocket.OPEN
CanPing == ws # 0 /\ readyState[ws] = "OPEN"

\* The timers one tick arms: the pong deadline of the ping it sends.
TickArms ==
    IF CanPing THEN { Timer("pong", ExpectedPongBack(args), ws, TRUE) } ELSE {}

KeepAliveTick(tm) ==
    /\ tm \in timers /\ tm.kind = "interval" /\ tm.rem = 0
    /\ LET rearmed == (timers \ {tm})
                        \cup { [tm EXCEPT !.rem = KeepAliveCheckInterval(args)] }
       IN  IF TickArms # {}
           THEN /\ sent' = [sent EXCEPT ![ws].ping = Bump(@)]
                /\ timers' = Unreference(rearmed, "pong") \cup TickArms
                /\ pingTimeout' = "handle"
           ELSE /\ timers' = rearmed
                /\ UNCHANGED << sent, pingTimeout >>
    /\ lastEvent' = Event("tick", IF CanPing THEN ws ELSE 0)
    /\ UNCHANGED << args, ws, stopped, reconnectDelay, keepAliveInterval,
                    created, readyState, subscriptionId, supersededId,
                    firstConfirmation, closeCalls, terminateCalls, stopCalls, closesSinceOpen,
                    lastReconnectDelay, deadlineElapsed >>

\* The pong deadline fires: if (ws) ws.terminate().
PongDeadline(tm) ==
    /\ tm \in timers /\ tm.kind = "pong" /\ tm.rem = 0
    /\ timers' = timers \ {tm}
    /\ deadlineElapsed' = [deadlineElapsed EXCEPT ![tm.tr] = TRUE]
    /\ IF ws # 0
       THEN /\ terminateCalls' = [terminateCalls EXCEPT ![ws] = Bump(@)]
            /\ readyState' = Closing(readyState, ws)
       ELSE UNCHANGED << terminateCalls, readyState >>
    /\ lastEvent' = Event("pongDeadline", ws)
    /\ UNCHANGED << args, ws, stopped, reconnectDelay, keepAliveInterval,
                    pingTimeout, created, subscriptionId, supersededId, firstConfirmation, sent,
                    closeCalls, stopCalls, closesSinceOpen,
                    lastReconnectDelay >>

\* ---------------------------------------------------------------- stop()
\* The body of stop(), shared by the caller's stop() and by the
\* 'unexpected-response' handler.
\* A stop() that keeps the transport handle.
StopKeepsHandle == ws

\* ws = null (after ws.close())
StopHandle == 0

stop ==
    /\ stopped' = TRUE
    /\ IF ws # 0
       THEN /\ closeCalls' = [closeCalls EXCEPT ![ws] = Bump(@)]
            /\ readyState' = Closing(readyState, ws)
       ELSE UNCHANGED << closeCalls, readyState >>
    /\ ws' = StopHandle
    /\ timers' = CloseClears

Stop ==
    /\ stopCalls < MaxStops
    /\ stopCalls' = stopCalls + 1
    /\ stop
    /\ lastEvent' = Event("stop", ws)
    /\ UNCHANGED << args, reconnectDelay, keepAliveInterval, pingTimeout,
                    created, subscriptionId, supersededId, firstConfirmation, sent,
                    terminateCalls, closesSinceOpen, lastReconnectDelay,
                    deadlineElapsed >>

\* ws.on('unexpected-response'): the handshake was rejected.
OnUnexpectedResponse(t) ==
    /\ readyState[t] = "CONNECTING"
    /\ stop
    /\ lastEvent' = Event("unexpected-response", t)
    /\ UNCHANGED << args, reconnectDelay, keepAliveInterval, pingTimeout,
                    created, subscriptionId, supersededId, firstConfirmation, sent,
                    terminateCalls, stopCalls, closesSinceOpen,
                    lastReconnectDelay, deadlineElapsed >>

\* ---------------------------------------------------------- ws.onmessage
NoParams == [ present |-> FALSE, subscription |-> Absent, result |-> Absent ]

Params(sub, res) == [ present |-> TRUE, subscription |-> sub, result |-> res ]

Body(id, result, method, params) ==
    [ id |-> id, result |-> result, method |-> method, params |-> params ]

SubIds == { "0xabc", "0xdef" }

\* Raw logs a notification may carry: one of the subscribed event, one the
\* contract interface has no fragment for, one that is malformed.
Payloads == { "logTransfer", "logUnknown", "logBad" }

\* The JSON values delivered: responses to the subscribe request (id 1) with
\* and without a result, responses to the ping (id 2) with result true, with
\* another result and without one, a response with an unknown id,
\* notifications with and without params, values of no known shape, and two
\* values of mixed shape.
Bodies ==
    { Body("1", r, Absent, NoParams) : r \in {Absent} \cup SubIds }
    \cup { Body("2", r, Absent, NoParams) : r \in {Absent, "true", "0xabc"} }
    \cup { Body(Absent, Absent, "eth_subscription", Params("0xabc", res)) :
             res \in Payloads }
    \cup { Body(Absent, Absent, "eth_subscription", Params(sub, "logTransfer")) :
             sub \in {Absent, "0xdef"} }
    \cup { Body("3", "true", Absent, NoParams),
           Body(Absent, Absent, "eth_subscription", NoParams),
           Body(Absent, Absent, "eth_unsubscribe", NoParams),
           Body(Absent, Absent, Absent, NoParams),
           Body("2", "0xabc", "eth_subscription", NoParams),
           Body("1", Absent, "eth_subscription", Params("0xabc", "logTransfer")) }

NotJson == [ json |-> FALSE, value |-> Body(Absent, Absent, Absent, NoParams) ]

Json(b) == [ json |-> TRUE, value |-> b ]

\* event.data: a string or a Buffer holding a text, or another type.
Frames ==
    { [ type |-> "string", text |-> x ] : x \in {NotJson} \cup { Json(b) : b \in Bodies } }
    \cup { [ type |-> "Buffer", text |-> x ] :
             x \in { NotJson, Json(Body("1", "0xabc", Absent, NoParams)) } }
    \cup { [ type |-> "ArrayBuffer", text |-> NotJson ] }

\* contract.interface.parseLog(logData): the description of the log, null
\* when the interface has no fragment for it; it throws on a malformed log.
ParseLog(logData) ==
    CASE logData = "logTransfer" -> "Transfer"
      [] logData = "logUnknown" -> "null"
      [] OTHER -> "throw"

\* parsedData?.id === request.id
IsSubscribeConfirmation(p) == p.id = "1"

\* parsedData?.id === ping.id && parsedData?.result === true
IsKeepAliveConfirmation(p) == p.id = "2" /\ p.result = "true"

\* parsedData?.method === 'eth_subscription'
IsNotification(p) == p.method = "eth_subscription"

\* A routing that does not compare the subscription.
RoutedAlways(p, sid) == TRUE

\* parsedData.params.subscription === subscriptionId
Routed(p, sid) == p.params.subscription = sid

\* The paths of the handler.
Outcomes ==
    { "unexpected-type", "parse-error", "subscribed", "pong", "throw-params",
      "throw-decode", "event", "dropped", "ignored" }

\* The path the handler takes for a frame on transport t.
Outcome(t, data) ==
    IF data.type \notin {"string", "Buffer"} THEN "unexpected-type"
    ELSE IF ~data.text.json THEN "parse-error"
    ELSE LET p == data.text.value IN
         IF IsSubscribeConfirmation(p) THEN "subscribed"
         ELSE IF IsKeepAliveConfirmation(p) THEN "pong"
         ELSE IF IsNotification(p)
              THEN IF ~p.params.present THEN "throw-params"
                   ELSE IF Routed(p, subscriptionId[t])
                        THEN IF ParseLog(p.params.result) = "throw"
                             THEN "throw-decode" ELSE "event"
                        ELSE "dropped"
              ELSE "ignored"

\* The pending deadline of the oldest ping sent on t that has had no
\* confirmation yet: the ping a confirmation arriving on t answers.
OldestUnanswered(t) ==
    { tm \in timers : /\ tm.kind = "pong" /\ tm.tr = t /\ ~tm.answered /\ tm.rem > 0
                      /\ \A o \in timers :
                            (o.kind = "pong" /\ o.tr = t /\ ~o.answered /\ o.rem > 0)
                                => tm.rem <= o.rem }

MarkAnswered(t) ==
    { IF tm \in OldestUnanswered(t) THEN [tm EXCEPT !.answered = TRUE] ELSE tm :
        tm \in timers }

\* The timer queue after a keep-alive confirmation on t.
PongClears(t) ==
    IF pingTimeout = "handle" THEN ClearHandle(MarkAnswered(t), "pong")
    ELSE MarkAnswered(t)

\* What the handler did with a frame on transport t, besides its effect on
\* subscriptionId and on the pong deadline.
Handled(t, data) ==
    LET o == Outcome(t, data)
        p == data.text.value
    IN  [ type |-> o, tr |-> t,
          sub |-> IF o \in {"event", "throw-decode", "dropped"}
                  THEN p.params.subscription ELSE Absent,
          decoded |-> o \in {"event", "throw-decode"},
          callbacks |-> IF o = "event" /\ args.callback THEN 1 ELSE 0,
          arg |-> IF o = "event" /\ args.callback
                  THEN ParseLog(p.params.result) ELSE "none",
          thrown |-> o \in {"throw-params", "throw-decode"} ]

\* The open event of t has been delivered (its handler sent the subscribe
\* request): only then does a transport deliver frames.
HasOpened(t) == sent[t].subscribe >= 1

OnMessage(t, data) ==
    /\ t <= MaxFramed
    /\ readyState[t] \in {"OPEN", "CLOSING"}
    /\ HasOpened(t)
    /\ terminateCalls[t] = 0
    /\ subscriptionId' =
          IF Outcome(t, data) = "subscribed"
          THEN [subscriptionId EXCEPT ![t] = data.text.value.result]
          ELSE subscriptionId
    /\ IF Outcome(t, data) = "pong"
       THEN /\ timers' = PongClears(t)
            /\ pingTimeout' = "null"
       ELSE UNCHANGED << timers, pingTimeout >>
    /\ firstConfirmation' =
          IF Outcome(t, data) = "subscribed" /\ firstConfirmation[t] = "none"
          THEN [firstConfirmation EXCEPT ![t] = data.text.value.result]
          ELSE firstConfirmation
    /\ lastEvent' = Handled(t, data)
    /\ UNCHANGED << args, ws, stopped, reconnectDelay, keepAliveInterval,
                    created, readyState, supersededId, sent, closeCalls,
                    terminateCalls, stopCalls, closesSinceOpen,
                    lastReconnectDelay, deadlineElapsed >>

\* ------------------------------------------------------------------ time
\* Time passes while no timer is due, up to the next deadline.  What a handler
\* does depends on the time only through the timers that are pending when it
\* runs, and a handler that runs between two deadlines can only meet again a
\* timer that it does not clear: one whose handle no variable holds any more.
\* While such a timer is pending time also passes in steps of one second, so
\* that handlers run at every offset from it.
MinRem ==
    IF timers = {} THEN 0
    ELSE CHOOSE r \in { tm.rem : tm \in timers } : \A tm \in timers : r <= tm.rem

Unreferenced == { tm \in timers : tm.kind \in {"interval", "pong"} /\ ~tm.cur }

Steps == {MinRem} \cup (IF Unreferenced # {} THEN {1000} ELSE {})

Advance(d) ==
    /\ timers # {}
    /\ d > 0 /\ d <= MinRem
    /\ timers' = { [tm EXCEPT !.rem = @ - d] : tm \in timers }
    /\ lastEvent' = Event("advance", 0)
    /\ UNCHANGED << args, ws, stopped, reconnectDelay, keepAliveInterval,
                    pingTimeout, created, readyState, subscriptionId,
                    supersededId, firstConfirmation, sent, closeCalls, terminateCalls, stopCalls,
                    closesSinceOpen, lastReconnectDelay, deadlineElapsed >>

Next ==
    \/ \E tm \in timers : ReconnectTimerFires(tm)
    \/ \E tm \in timers : KeepAliveTick(tm)
    \/ \E tm \in timers : PongDeadline(tm)
    \/ \E t \in Transports : OnOpen(t)
    \/ \E t \in Transports : OnClose(t)
    \/ \E t \in Transports : OnError(t)
    \/ \E t \in Transports : OnUnexpectedResponse(t)
    \/ \E t \in Transports, data \in Frames : OnMessage(t, data)
    \/ Stop
    \/ \E d \in Steps : Advance(d)

Spec == Init /\ [][Next]_vars

\* The timers fire and time passes: the JavaScript event loop runs a timer
\* that is due, and a deadline that is pending is reached.
Fairness ==
    /\ WF_vars(\E tm \in timers : ReconnectTimerFires(tm))
    /\ WF_vars(\E tm \in timers : KeepAliveTick(tm))
    /\ WF_vars(\E tm \in timers : PongDeadline(tm))
    /\ WF_vars(\E d \in Steps : Advance(d))

SpecLive == Spec /\ Fairness

\* ------------------------------------------------------------ properties
ReconnectTimers(ts) == { tm \in ts : tm.kind = "reconnect" }

PongTimers(ts) == { tm \in ts : tm.kind = "pong" }

RECURSIVE Pow2(_)
Pow2(n) == IF n = 0 THEN 1 ELSE 2 * Pow2(n - 1)

\* C1: once stopped, no WebSocket is constructed any more and the stopped
\* flag stays set, whatever step is taken: a pending reconnect timer firing,
\* a close event of the current or of an abandoned transport, time passing.
C1_NoTransportAfterStop ==
    [][stopped => (stopped' /\ created' = created)]_vars

\* C1 witness: stop() was called while a reconnect was pending, and the
\* reconnect timer has fired and run connect().
C1_Witness ==
    /\ stopped
    /\ lastEvent.type = "connect"
    /\ lastEvent.tr = 0
    /\ \E t \in Transports : readyState[t] = "CLOSED"

\* C2: the close event of the current transport, delivered while not stopped,
\* arms exactly one reconnect timer, with the delay reconnectDelay had; and
\* while not stopped a pending reconnect leads to a new WebSocket (or to
\* stop()).
C2_CloseSchedulesOne ==
    [][ \A t \in Transports :
          (ws = t /\ ~stopped /\ lastEvent'.type = "close" /\ lastEvent'.tr = t
             /\ readyState[t] # "CLOSED" /\ readyState'[t] = "CLOSED")
          => /\ Cardinality(ReconnectTimers(timers') \ ReconnectTimers(timers)) = 1
             /\ \A tm \in ReconnectTimers(timers') \ ReconnectTimers(timers) :
                    tm.rem = reconnectDelay
             /\ ReconnectTimers(timers) \subseteq ReconnectTimers(timers') ]_vars

C2_ReconnectHappens ==
    (~stopped /\ ReconnectTimers(timers) # {})
        ~> (stopped \/ (lastEvent.type = "connect" /\ lastEvent.tr = created))

C2_CloseLeadsToReconnect == C2_CloseSchedulesOne /\ C2_ReconnectHappens

\* C2 witness: a transport that the health check terminated has delivered
\* its close event, and the reconnect is pending with the delay of that time.
C2_Witness ==
    /\ ~stopped
    /\ lastEvent.type = "close"
    /\ terminateCalls[lastEvent.tr] >= 1
    /\ \E tm \in ReconnectTimers(timers) :
          tm.tr = lastEvent.tr /\ tm.rem = lastReconnectDelay

\* C3: after n+1 closes in a row with no open in between, the delay the last
\* reconnect was scheduled with is min(1000 * 2^n, 30000).
C3_BackoffDelay ==
    closesSinceOpen >= 1 =>
        /\ lastReconnectDelay = Min(BaseDelay * Pow2(closesSinceOpen - 1), MaxDelay)
        /\ lastReconnectDelay <= MaxDelay

\* C3 witness: the sixth close in a row was scheduled with the capped delay.
C3_Witness ==
    /\ closesSinceOpen = 6
    /\ lastReconnectDelay = MaxDelay
    /\ lastEvent.type = "close"

\* C4: right after an open event the reconnect delay is the base delay, and
\* the first close after an open schedules its reconnect with the base delay.
C4_OpenResetsDelay ==
    /\ lastEvent.type = "open" => reconnectDelay = BaseDelay
    /\ closesSinceOpen = 1 => lastReconnectDelay = BaseDelay

\* C4 witness: a transport opened after two closes in a row (the delay had
\* grown to 4000), then closed, and its reconnect was scheduled after 1000.
C4_Witness ==
    /\ lastEvent.type = "close"
    /\ lastEvent.tr >= 3
    /\ sent[lastEvent.tr].subscribe = 1
    /\ closesSinceOpen = 1
    /\ lastReconnectDelay = BaseDelay
    /\ reconnectDelay = 2 * BaseDelay

\* C5: a ping with no confirmation within expectedPongBack leads to exactly
\* one terminate() call on its transport: no transport is terminated twice,
\* and a transport that is still the current one when the deadline of one of
\* its pings has elapsed has been terminated once.
C5_ExactlyOneTermination ==
    \A t \in Transports :
        /\ terminateCalls[t] <= 1
        /\ (deadlineElapsed[t] /\ ws = t) => terminateCalls[t] = 1

\* C6: the deadline of a ping whose confirmation arrived in time is no longer
\* armed (so it cannot terminate the transport).
C6_AnsweredDeadlineCancelled ==
    \A tm \in PongTimers(timers) : ~tm.answered

\* C7: with keepAliveCheckInterval = 0 no ping is sent, no pong deadline is
\* armed and no transport is terminated.
C7_ZeroDisablesKeepAlive ==
    args.keepAliveCheckInterval = 0 =>
        /\ PongTimers(timers) = {}
        /\ \A t \in Transports : sent[t].ping = 0 /\ terminateCalls[t] = 0

\* A frame that parses to a JSON value.
IsJson(data) == data.type \in {"string", "Buffer"} /\ data.text.json

\* A notification: no id, method eth_subscription, params present.
IsNotificationFrame(data) ==
    /\ IsJson(data)
    /\ data.text.value.id = Absent
    /\ data.text.value.method = "eth_subscription"
    /\ data.text.value.params.present

\* The state of the session: what the handlers read and write.
session == << ws, stopped, reconnectDelay, keepAliveInterval, pingTimeout, timers,
              subscriptionId, readyState >>

\* The paths a notification with params takes; lastEvent.sub is then the
\* subscription the frame carried.
NotificationOutcomes == { "event", "throw-decode", "dropped" }

\* C8: a notification whose subscription differs from the subscriptionId of
\* the transport it arrives on is dropped: parseLog is not called, the
\* callback is not called, nothing is thrown and the session is unchanged.
C8_MismatchDropped ==
    [][ (/\ lastEvent'.type \in NotificationOutcomes
         /\ lastEvent'.sub # subscriptionId[lastEvent'.tr])
        => /\ ~lastEvent'.decoded
           /\ lastEvent'.callbacks = 0
           /\ ~lastEvent'.thrown
           /\ UNCHANGED session ]_vars

\* C8 witness: on a transport constructed by a reconnect, a notification
\* carrying the subscription confirmed on the connection before it has been
\* dropped.
C8_Witness ==
    /\ lastEvent.type = "dropped"
    /\ lastEvent.tr >= 2
    /\ supersededId \in SubIds
    /\ lastEvent.sub = supersededId
    /\ ~lastEvent.decoded /\ lastEvent.callbacks = 0

\* C9: on a transport that has opened and had the confirmation {id: 1,
\* result: S}, every notification with subscription S is passed to parseLog,
\* and the callback (when given) is called once with what parseLog returns,
\* null included.
C9_ConfirmedNotificationDelivered ==
    [][ lastEvent'.type \in Outcomes =>
          \A data \in Frames :
            LET t == lastEvent'.tr IN
            (/\ IsNotificationFrame(data)
             /\ sent[t].subscribe >= 1
             /\ firstConfirmation[t] \in SubIds
             /\ data.text.value.params.subscription = firstConfirmation[t]
             /\ OnMessage(t, data))
            => /\ lastEvent'.decoded
               /\ (args.callback /\ ParseLog(data.text.value.params.result) # "throw")
                    => /\ lastEvent'.callbacks = 1
                       /\ lastEvent'.arg = ParseLog(data.text.value.params.result) ]_vars

\* One of the three shapes of section 6: a subscribe confirmation with a
\* result, a keep-alive confirmation, a notification with params.
WellFormed(data) ==
    /\ IsJson(data)
    /\ \/ data.text.value.id = "1" /\ data.text.value.result # Absent
       \/ data.text.value.id = "2" /\ data.text.value.result = "true"
       \/ IsNotificationFrame(data)

\* C10: a frame that is not JSON, not text, or of none of the three shapes
\* makes the handler throw nothing and leaves subscriptionId, the transport
\* handle, the timers and the stopped flag as they were.
C10_MalformedFrameHarmless ==
    [][ lastEvent'.type \in Outcomes =>
          \A data \in Frames :
            LET t == lastEvent'.tr IN
            (/\ ~WellFormed(data)
             /\ OnMessage(t, data))
            => /\ ~lastEvent'.thrown
               /\ UNCHANGED << subscriptionId, ws, timers, keepAliveInterval,
                               pingTimeout, stopped >> ]_vars

\* C11: the first stop() sets stopped, closes the current transport (if any)
\* once and clears the handle; a stop() of a stopped listener makes no call on
\* any transport and leaves stopped, the handle, the timers and the reconnect
\* delay as they were; no transport ever has close() called twice.
C11_StopIdempotent ==
    [][ lastEvent'.type = "stop" =>
          /\ stopped' /\ ws' = 0
          /\ \A t \in Transports : closeCalls'[t] <= 1
          /\ IF stopped
             THEN UNCHANGED << ws, timers, reconnectDelay, keepAliveInterval,
                               pingTimeout, closeCalls, terminateCalls, sent,
                               readyState >>
             ELSE /\ \A t \in Transports :
                        closeCalls'[t] = closeCalls[t] + (IF t = ws THEN 1 ELSE 0)
                  /\ UNCHANGED << terminateCalls, sent, reconnectDelay >> ]_vars

\* C11 witness: the caller's stop() has run a second time, after the first
\* one closed the transport that was current.
C11_Witness ==
    /\ lastEvent.type = "stop"
    /\ stopCalls = 2
    /\ \E t \in Transports : closeCalls[t] = 1

\* C12: the 'unexpected-response' handler of a transport sets stopped, calls
\* close() on that transport (the current one) and clears the handle; and
\* from then on no reconnect timer is armed and no WebSocket is constructed,
\* whatever is delivered afterwards.
C12_RejectionStops ==
    [][ /\ lastEvent'.type = "unexpected-response" =>
              /\ stopped' /\ ws' = 0
              /\ ws = lastEvent'.tr
              /\ closeCalls'[lastEvent'.tr] = closeCalls[lastEvent'.tr] + 1
              /\ readyState'[lastEvent'.tr] = "CLOSING"
        /\ stopped =>
              /\ stopped'
              /\ created' = created
              /\ Cardinality(ReconnectTimers(timers'))
                    <= Cardinality(ReconnectTimers(timers)) ]_vars

\* C12 witness: a transport was rejected, the listener stopped itself (the
\* caller never called stop()), and the close event of the rejected transport
\* has been delivered, leaving no reconnect pending.
C12_Witness ==
    /\ stopped
    /\ stopCalls = 0
    /\ lastEvent.type = "close"
    /\ closeCalls[lastEvent.tr] = 1
    /\ readyState[lastEvent.tr] = "CLOSED"
    /\ ReconnectTimers(timers) = {}

\* C13: in every reachable state 1000 <= reconnectDelay <= 30000, and a
\* pending reconnect timer has at most 30000 ms left.
C13_DelayWithinBounds ==
    /\ BaseDelay <= reconnectDelay /\ reconnectDelay <= MaxDelay
    /\ \A tm \in ReconnectTimers(timers) : tm.rem <= MaxDelay

\* C13 witness: a reconnect is pending while the delay is at the cap.
C13_Witness ==
    /\ reconnectDelay = MaxDelay
    /\ \E tm \in ReconnectTimers(timers) : tm.rem > 0

\* C14: on one connection the first response with id 1 sets subscriptionId
\* to its result, and once a response with id 1 and a result has been
\* received every later response with id 1 leaves subscriptionId as it was.
C14_FirstConfirmationOnly ==
    [][ lastEvent'.type = "subscribed" =>
          LET t == lastEvent'.tr IN
          /\ firstConfirmation[t] = "none" =>
                subscriptionId'[t] = firstConfirmation'[t]
          /\ firstConfirmation[t] \in SubIds =>
                subscriptionId' = subscriptionId ]_vars

\* C15: in every reachable state at most one pong deadline is armed, and a
\* tick sends no ping while the deadline of an unconfirmed ping is pending.
C15_OneOutstandingPing ==
    /\ Cardinality(PongTimers(timers)) <= 1
    /\ Cardinality({ tm \in PongTimers(timers) : ~tm.answered }) <= 1

\* C16: a pong deadline that fires terminates only the transport its ping was
\* sent on, and a keep-alive tick sends its ping only on the transport whose
\* open event armed the interval.
C16_TimersActOnOwnSession ==
    [][ /\ lastEvent'.type = "pongDeadline" =>
              \A tm \in timers \ timers' :
                  (tm.kind = "pong" /\ ws # 0) => tm.tr = ws
        /\ lastEvent'.type = "tick" =>
              \A tm \in timers \ timers' :
                  (tm.kind = "interval" /\ lastEvent'.tr # 0)
                      => tm.tr = lastEvent'.tr ]_vars

\* The transports that are live: constructed and not yet closed.
Live == { t \in Transports : readyState[t] \in {"CONNECTING", "OPEN", "CLOSING"} }

\* C17: in every reachable state at most one transport is live, at most one
\* reconnect timer is pending, no reconnect is pending while a transport is
\* live, and every transport but the last constructed has closed.
C17_OneSession ==
    /\ Cardinality(Live) <= 1
    /\ Cardinality(ReconnectTimers(timers)) <= 1
    /\ Live # {} => ReconnectTimers(timers) = {}
    /\ \A t \in Transports : t < created => readyState[t] = "CLOSED"
    /\ ws # 0 => Live = {ws}

\* C17 witness: the third transport is open, after two reconnects.
C17_Witness ==
    /\ created = 3
    /\ readyState[3] = "OPEN"
    /\ ws = 3

\* C18: the open event of a transport sends one subscribe request on that
\* transport and throws nothing; no transport is ever sent a second subscribe
\* request, and none is sent a ping before its subscribe request.
C18_SubscribeOnOpen ==
    [][ /\ lastEvent'.type = "open" =>
              LET t == lastEvent'.tr IN
              /\ ws = t
              /\ ~lastEvent'.thrown
              /\ sent[t].subscribe = 0 /\ sent[t].ping = 0
              /\ sent'[t].subscribe = 1
              /\ \A u \in Transports \ {t} : sent'[u] = sent[u]
        /\ \A t \in Transports :
              /\ sent'[t].subscribe <= 1
              /\ sent'[t].ping >= 1 => sent'[t].subscribe = 1 ]_vars

\* C18 witness: the transport of a reconnect has opened, been sent its
\* subscribe request and then a ping.
C18_Witness ==
    /\ created >= 2
    /\ sent[created].subscribe = 1
    /\ sent[created].ping >= 1

\* C19: a frame is passed to parseLog or to the callback only on a transport
\* whose subscriptionId holds the result of a subscribe confirmation.
C19_NoDeliveryBeforeConfirmation ==
    [][ (/\ lastEvent'.type \in Outcomes
         /\ lastEvent'.decoded \/ lastEvent'.callbacks > 0)
        => subscriptionId[lastEvent'.tr] \in SubIds ]_vars

\* C20: a notification carrying the subscription confirmed on the transport
\* it arrives on is passed to parseLog or to the callback only when that
\* transport is the current one and the listener is not stopped.
C20_SupersededTransportSilent ==
    [][ (/\ lastEvent'.type \in Outcomes
         /\ subscriptionId[lastEvent'.tr] \in SubIds
         /\ lastEvent'.sub = subscriptionId[lastEvent'.tr]
         /\ lastEvent'.decoded \/ lastEvent'.callbacks > 0)
        => (~stopped /\ ws = lastEvent'.tr) ]_vars

\* C21: no handler ends with an uncaught exception, in any reachable state.
C21_NoUncaughtFault == ~lastEvent.thrown

\* C22: the error event of a transport makes no close() or terminate() call,
\* arms no timer and leaves the transport handle, the subscription
\* identifiers, the timers, the reconnect delay, the stopped flag and every
\* transport's readyState as they were.
C22_ErrorOnlyLogs ==
    [][ lastEvent'.type = "error" =>
          /\ ~lastEvent'.thrown
          /\ UNCHANGED << ws, subscriptionId, timers, reconnectDelay, stopped,
                          readyState, closeCalls, terminateCalls, sent,
                          keepAliveInterval, pingTimeout, created >> ]_vars

\* C22 witness: an error event was delivered on an open, subscribed
\* transport while its keep-alive timers were armed; the transport is still
\* open and current.
C22_Witness ==
    /\ lastEvent.type = "error"
    /\ ws = lastEvent.tr
    /\ readyState[lastEvent.tr] = "OPEN"
    /\ subscriptionId[lastEvent.tr] \in SubIds
    /\ PongTimers(timers) # {}

=============================================================================
